---- MODULE Spec2Model ----
(***************************************************************************)
(* Model of the RequirementsBot serverless endpoint: the handler of        *)
(* src/api/generate.js and its two sibling files src/unnamed/part_000 and  *)
(* src/unnamed/part_001, which differ only in schema().                    *)
(*                                                                         *)
(* JavaScript values are tagged records: [t |-> "undefined"],              *)
(* [t |-> "null"], [t |-> "str", s |-> ...], [t |-> "arr", a |-> <<...>>], *)
(* [t |-> "obj", o |-> record].  Object literals the handler itself builds *)
(* (the schema, the messages, the outbound body, the Response) are plain   *)
(* TLA+ records whose DOMAIN is the object's key set.                      *)
(***************************************************************************)
EXTENDS Integers, Sequences, FiniteSets

\* Number of invocations of the handler that may be in flight together.
NumProcs == 2

Procs == 1..NumProcs

\* The three source files, each exporting its own schema() and handler.
Files == {"generate", "part_000", "part_001"}

-----------------------------------------------------------------------------
(* JavaScript values *)

Undefined == [t |-> "undefined"]
JNull == [t |-> "null"]
JStr(s) == [t |-> "str", s |-> s]
JArr(a) == [t |-> "arr", a |-> a]
JObj(o) == [t |-> "obj", o |-> o]

\* {} : the object with no keys.
EmptyRec == [k \in {} |-> Undefined]

Nullish(v) == v.t \in {"undefined", "null"}

\* ToBoolean, as used by || and if (...): undefined, null and "" are falsy.
Truthy(v) == \/ v.t = "str" /\ v.s # ""
             \/ v.t \in {"arr", "obj"}

\* v.k for a non-nullish v; destructuring a key out of a non-nullish v.
GetProp(v, k) == IF v.t = "obj" /\ k \in DOMAIN v.o THEN v.o[k] ELSE Undefined

\* v?.k
OptProp(v, k) == IF Nullish(v) THEN Undefined ELSE GetProp(v, k)

\* v?.[0]
OptFirst(v) == IF Nullish(v) THEN Undefined
               ELSE IF v.t = "arr" /\ Len(v.a) >= 1 THEN v.a[1]
               ELSE Undefined

\* String(v) of a template literal ${v}, for the truthy values modelled.
StringOf(v) == IF v.t = "str" THEN v.s
               ELSE IF v.t = "null" THEN "null"
               ELSE IF v.t = "undefined" THEN "undefined"
               ELSE "[object Object]"

\* `v || d` interpolated into a template literal.
OrDefault(v, d) == IF Truthy(v) THEN StringOf(v) ELSE d

-----------------------------------------------------------------------------
(* schema(): the output-shape constraint, one per source file *)

TString == [type |-> "string"]
TNumber == [type |-> "number"]
TBoolean == [type |-> "boolean"]
TStringArray == [type |-> "array", items |-> [type |-> "string"]]

TopRequired == <<"userStories", "declarativeStories", "imperativeTests",
                 "uiDataModel", "validationReport">>

\* src/api/generate.js: the permissive variant.
schema_generate ==
  [ name |-> "RequirementsBundle",
    strict |-> TRUE,
    schema |->
    [ type |-> "object",
      additionalProperties |-> FALSE,
      properties |->
      [ userStories |->
          [ type |-> "array",
            items |->
            [ type |-> "object",
              required |-> <<"id", "as_a", "i_want", "so_that", "acceptance_criteria">>,
              additionalProperties |-> TRUE,
              properties |->
              [ id |-> TString, as_a |-> TString, i_want |-> TString,
                so_that |-> TString, acceptance_criteria |-> TStringArray,
                trace |-> [type |-> "object"] ] ] ],
        declarativeStories |->
          [ type |-> "array",
            items |->
            [ type |-> "object",
              required |-> <<"title", "scenarios">>,
              properties |->
              [ title |-> TString,
                scenarios |->
                [ type |-> "array",
                  items |->
                  [ type |-> "object",
                    required |-> <<"given", "when", "then">>,
                    properties |->
                    [ given |-> TString, when |-> TString, then |-> TString,
                      examples |-> [type |-> "array", items |-> [type |-> "object"]] ] ] ] ] ] ],
        imperativeTests |->
          [ type |-> "array",
            items |->
            [ type |-> "object",
              required |-> <<"name", "gherkin", "tags">>,
              properties |->
              [ name |-> TString, tags |-> TStringArray, gherkin |-> TString,
                selectors |-> [type |-> "object"] ] ] ],
        uiDataModel |->
          [ type |-> "object",
            properties |->
            [ entities |->
              [ type |-> "array",
                items |->
                [ type |-> "object",
                  required |-> <<"name", "fields">>,
                  properties |->
                  [ name |-> TString,
                    fields |->
                    [ type |-> "array",
                      items |->
                      [ type |-> "object",
                        required |-> <<"name", "type">>,
                        properties |->
                        [ name |-> TString, type |-> TString, required |-> TBoolean,
                          constraints |-> [type |-> "object"],
                          enum |-> TStringArray ] ] ],
                    relations |-> [type |-> "array", items |-> [type |-> "object"]] ] ] ],
              jsonSchemas |-> [type |-> "object"],
              sqlDDL |-> TString ] ],
        validationReport |->
          [ type |-> "object",
            properties |->
            [ coverage |-> [type |-> "object"],
              conflicts |-> TStringArray, ambiguities |-> TStringArray,
              missing |-> TStringArray, notes |-> TStringArray ] ] ],
      required |-> TopRequired ] ]

\* An object node closed with additionalProperties: false and no required list.
Closed(props) == [type |-> "object", additionalProperties |-> FALSE, properties |-> props]

\* An object node closed with additionalProperties: false and a required list.
ClosedReq(req, props) ==
  [type |-> "object", additionalProperties |-> FALSE, required |-> req, properties |-> props]

CoverageNode == Closed([uiComponentsCoveredPct |-> TNumber, fieldsWithTestsPct |-> TNumber])

\* src/unnamed/part_000: the cut-down strict variant.
schema_part_000 ==
  [ name |-> "RequirementsBundle",
    strict |-> TRUE,
    schema |->
    [ type |-> "object",
      additionalProperties |-> FALSE,
      required |-> TopRequired,
      properties |->
      [ userStories |->
          [ type |-> "array",
            items |->
            ClosedReq(<<"id", "as_a", "i_want", "so_that", "acceptance_criteria">>,
              [ id |-> TString, as_a |-> TString, i_want |-> TString,
                so_that |-> TString, acceptance_criteria |-> TStringArray ]) ],
        declarativeStories |->
          [ type |-> "array",
            items |->
            ClosedReq(<<"title", "scenarios">>,
              [ title |-> TString,
                scenarios |->
                [ type |-> "array",
                  items |->
                  ClosedReq(<<"given", "when", "then">>,
                    [ given |-> TString, when |-> TString, then |-> TString ]) ] ]) ],
        imperativeTests |->
          [ type |-> "array",
            items |->
            ClosedReq(<<"name", "gherkin", "tags">>,
              [ name |-> TString, gherkin |-> TString, tags |-> TStringArray ]) ],
        uiDataModel |->
          ClosedReq(<<"entities">>,
            [ entities |->
              [ type |-> "array",
                items |->
                ClosedReq(<<"name", "fields">>,
                  [ name |-> TString,
                    fields |->
                    [ type |-> "array",
                      items |->
                      ClosedReq(<<"name", "type">>,
                        [ name |-> TString, type |-> TString,
                          required |-> TBoolean ]) ] ]) ] ]),
        validationReport |->
          Closed(
            [ coverage |-> CoverageNode,
              conflicts |-> TStringArray, ambiguities |-> TStringArray,
              missing |-> TStringArray, notes |-> TStringArray ]) ] ] ]

\* src/unnamed/part_001: the fully populated strict variant.
schema_part_001 ==
  [ name |-> "RequirementsBundle",
    strict |-> TRUE,
    schema |->
    [ type |-> "object",
      additionalProperties |-> FALSE,
      properties |->
      [ userStories |->
          [ type |-> "array",
            items |->
            ClosedReq(<<"id", "as_a", "i_want", "so_that", "acceptance_criteria">>,
              [ id |-> TString, as_a |-> TString, i_want |-> TString,
                so_that |-> TString, acceptance_criteria |-> TStringArray,
                trace |-> Closed([ui_nodes |-> TStringArray, entities |-> TStringArray]) ]) ],
        declarativeStories |->
          [ type |-> "array",
            items |->
            ClosedReq(<<"title", "scenarios">>,
              [ title |-> TString,
                scenarios |->
                [ type |-> "array",
                  items |->
                  ClosedReq(<<"given", "when", "then">>,
                    [ given |-> TString, when |-> TString, then |-> TString,
                      examples |-> [type |-> "array", items |-> Closed(EmptyRec)] ]) ] ]) ],
        imperativeTests |->
          [ type |-> "array",
            items |->
            ClosedReq(<<"name", "gherkin", "tags">>,
              [ name |-> TString, tags |-> TStringArray, gherkin |-> TString,
                selectors |-> Closed(EmptyRec) ]) ],
        uiDataModel |->
          Closed(
            [ entities |->
              [ type |-> "array",
                items |->
                ClosedReq(<<"name", "fields">>,
                  [ name |-> TString,
                    fields |->
                    [ type |-> "array",
                      items |->
                      ClosedReq(<<"name", "type">>,
                        [ name |-> TString, type |-> TString, required |-> TBoolean,
                          constraints |->
                            Closed([ minLength |-> TNumber, maxLength |-> TNumber,
                                     pattern |-> TString, minimum |-> TNumber,
                                     maximum |-> TNumber ]),
                          enum |-> TStringArray ]) ],
                    relations |->
                    [ type |-> "array",
                      items |-> Closed([type |-> TString, target |-> TString,
                                        on |-> TString]) ] ]) ],
              jsonSchemas |-> Closed(EmptyRec),
              sqlDDL |-> TString ]),
        validationReport |->
          Closed(
            [ coverage |-> CoverageNode,
              conflicts |-> TStringArray, ambiguities |-> TStringArray,
              missing |-> TStringArray, notes |-> TStringArray ]) ],
      required |-> TopRequired ] ]

\* schema() of the file f.
schema(f) == CASE f = "generate" -> schema_generate
               [] f = "part_000" -> schema_part_000
               [] f = "part_001" -> schema_part_001

-----------------------------------------------------------------------------
(* The inbound request *)

Keys == {"figmaUrl", "brief", "rules", "model", "detail", "imageDataUrl"}

\* Values a caller may put under each key; Undefined stands for "key absent".
FieldValues(k) ==
  CASE k = "figmaUrl" -> {Undefined, JStr(""), JStr("https://figma.com/file/abc")}
    [] k = "brief" -> {Undefined, JStr("Checkout flow")}
    [] k = "rules" -> {Undefined, JStr(""), JStr("must: login")}
    [] k = "detail" -> {Undefined, JStr("high")}
    [] k = "model" -> {Undefined, JNull, JStr(""), JStr("gpt-4o")}
    [] k = "imageDataUrl" -> {Undefined, JNull, JStr(""), JStr("data:image/png;base64,AAAA")}

\* The JSON object holding exactly the keys of g that are not Undefined.
ObjectOf(g) == JObj([k \in {x \in Keys : g[x] # Undefined} |-> g[k]])

Objects == {ObjectOf(g) : g \in {h \in [Keys -> UNION {FieldValues(k) : k \in Keys}] :
                                   \A k \in Keys : h[k] \in FieldValues(k)}}

\* A body is text that is not JSON (the empty body included), or text that
\* parses to a JSON value.
InvalidBody == [kind |-> "invalid"]
JsonBody(v) == [kind |-> "json", value |-> v]

EmptyObject == JObj(EmptyRec)

ImageObject == JObj([imageDataUrl |-> JStr("data:image/png;base64,AAAA")])

Requests ==
  {[method |-> "POST", body |-> b] :
      b \in {InvalidBody, JsonBody(JNull), JsonBody(JArr(<<>>))} \cup {JsonBody(o) : o \in Objects}}
  \cup {[method |-> m, body |-> b] :
      m \in {"GET", "PUT"}, b \in {InvalidBody, JsonBody(EmptyObject), JsonBody(ImageObject)}}

\* The requests of the concurrent specification.
ConcRequests ==
  { [method |-> "GET", body |-> JsonBody(ImageObject)],
    [method |-> "POST", body |-> InvalidBody],
    [method |-> "POST", body |-> JsonBody(EmptyObject)],
    [method |-> "POST", body |-> JsonBody(ImageObject)],
    [method |-> "POST", body |-> JsonBody(JObj([imageDataUrl |-> JStr("data:image/png;base64,BBBB"),
                                                 model |-> JStr("gpt-4o"),
                                                 brief |-> JStr("Checkout flow")]))] }

-----------------------------------------------------------------------------
(* The completion service's reply *)

TextHtml == "<html>502 Bad Gateway</html>"
TextNull == "null"
TextEmptyObject == "{}"
TextNoChoices == "{\"choices\":[]}"
TextNoMessage == "{\"choices\":[{}]}"
TextRefusal == "{\"choices\":[{\"message\":{\"content\":null,\"refusal\":\"no\"}}]}"
TextEmptyContent == "{\"choices\":[{\"message\":{\"content\":\"\"}}]}"
TextBundle == "{\"choices\":[{\"message\":{\"content\":\"{\\\"userStories\\\":[]}\"}}]}"
TextRateLimit == "{\"error\":{\"message\":\"Rate limit reached\"}}"

ContentBundle == "{\"userStories\":[]}"

OkTexts == {TextHtml, TextNull, TextEmptyObject, TextNoChoices, TextNoMessage,
            TextRefusal, TextEmptyContent, TextBundle}
ErrorTexts == {TextRateLimit, ""}

\* fetch() rejects (network failure), or resolves with a response.
FetchRejected == [kind |-> "rejected"]
UpstreamResponse(ok, text) == [kind |-> "response", ok |-> ok, text |-> text]

Replies == {FetchRejected}
           \cup {UpstreamResponse(TRUE, t) : t \in OkTexts}
           \cup {UpstreamResponse(FALSE, t) : t \in ErrorTexts}

ConcReplies == {FetchRejected, UpstreamResponse(TRUE, TextBundle),
                UpstreamResponse(TRUE, TextRefusal), UpstreamResponse(FALSE, TextRateLimit)}

\* JSON.parse on the reply texts above: [ok |-> FALSE] is a SyntaxError.
JsonParse(text) ==
  CASE text = TextNull -> [ok |-> TRUE, value |-> JNull]
    [] text = TextEmptyObject -> [ok |-> TRUE, value |-> JObj(EmptyRec)]
    [] text = TextNoChoices -> [ok |-> TRUE, value |-> JObj([choices |-> JArr(<<>>)])]
    [] text = TextNoMessage -> [ok |-> TRUE, value |-> JObj([choices |-> JArr(<<JObj(EmptyRec)>>)])]
    [] text = TextRefusal ->
         [ok |-> TRUE, value |->
            JObj([choices |-> JArr(<<JObj([message |->
                    JObj([content |-> JNull, refusal |-> JStr("no")])])>>)])]
    [] text = TextEmptyContent ->
         [ok |-> TRUE, value |->
            JObj([choices |-> JArr(<<JObj([message |-> JObj([content |-> JStr("")])])>>)])]
    [] text = TextBundle ->
         [ok |-> TRUE, value |->
            JObj([choices |-> JArr(<<JObj([message |-> JObj([content |-> JStr(ContentBundle)])])>>)])]
    [] OTHER -> [ok |-> FALSE]

-----------------------------------------------------------------------------
(* State *)

VARIABLES
  pc,        \* where each invocation is: idle, awaitBody, awaitFetch, awaitText, awaitJson, done
  file,      \* the source file whose handler the invocation runs
  req,       \* the invocation's request
  bodyRead,  \* whether req.json() was called
  messages,  \* the invocation's messages array
  fetches,   \* the fetch() calls the invocation issued, in order
  upstream,  \* what the invocation's fetch() settled with
  responses, \* the Responses the invocation returned
  escaped    \* whether an exception left the handler

vars == <<pc, file, req, bodyRead, messages, fetches, upstream, responses, escaped>>

NoRequest == [method |-> "none"]
NoReply == [kind |-> "none"]

Init ==
  /\ pc = [i \in Procs |-> "idle"]
  /\ file = [i \in Procs |-> "none"]
  /\ req = [i \in Procs |-> NoRequest]
  /\ bodyRead = [i \in Procs |-> FALSE]
  /\ messages = [i \in Procs |-> <<>>]
  /\ fetches = [i \in Procs |-> <<>>]
  /\ upstream = [i \in Procs |-> NoReply]
  /\ responses = [i \in Procs |-> <<>>]
  /\ escaped = [i \in Procs |-> FALSE]

-----------------------------------------------------------------------------
(* The handler's pure steps *)

\* A method check that refuses GET only.
MethodAllowedNotGet(m) == m # "GET"

MethodAllowed(m) == m = "POST"

\* new Response(body, {status}) : a string body gets the default content type.
TextResponse(body, status) ==
  [status |-> status, headers |-> [ContentType |-> "text/plain;charset=UTF-8"], body |-> body]

\* new Response(body, {status, headers: {"Content-Type": "application/json"}})
JsonResponse(body, status) ==
  [status |-> status, headers |-> [ContentType |-> "application/json"], body |-> body]

MethodNotAllowed == TextResponse("Method Not Allowed", 405)

\* const { figmaUrl, brief, rules, model, detail, imageDataUrl } = v, v not nullish.
Destructure(v) == [k \in Keys |-> GetProp(v, k)]

SystemPrompt ==
  "You are a Product Requirements generator.\n"
  \o "Return STRICT JSON ONLY (no prose) that conforms to the provided JSON Schema.\n"
  \o "Inputs you may use: Figma URL, uploaded image, product brief, and validation rules.\n"
  \o "Goals:\n"
  \o "1) User Stories with SMART acceptance criteria (success, error, empty, permission).\n"
  \o "2) Declarative stories (rule-focused Gherkin; scenario outlines with examples where useful).\n"
  \o "3) Imperative test cases (Given/When/Then; selectors/testIds where possible).\n"
  \o "4) UI Data Model (entities, fields, constraints, relations, JSON Schemas, optional SQL DDL).\n"
  \o "5) Validation Report (coverage, conflicts, ambiguities, missing).\n"
  \o "Honor the rules strictly. If a detail is genuinely unknown, use \"TBD\" and flag it in validationReport."

DefaultFigma == "N/A"
DefaultBrief == "N/A"
DefaultDetail == "standard"
DefaultRules == ""
DefaultModel == "gpt-5"

\* The user message's text, given the four interpolated pieces.
UserTextOf(figma, brief, detail, rules) ==
  "FIGMA: " \o figma \o "\nBRIEF: " \o brief \o "\nDETAIL: " \o detail
  \o "\nRULES (YAML or text):\n" \o rules
  \o "\n\nPlease infer intents from UI labels and flows if present. "
  \o "Produce comprehensive but concise artifacts.\n"
  \o "Link stories/tests/model via trace where obvious."

\* The user text with `${rules}` in place of `${rules || ''}`.
UserTextRulesUnguarded(d) ==
  UserTextOf(OrDefault(d.figmaUrl, DefaultFigma), OrDefault(d.brief, DefaultBrief),
             OrDefault(d.detail, DefaultDetail), StringOf(d.rules))

UserText(d) ==
  UserTextOf(OrDefault(d.figmaUrl, DefaultFigma), OrDefault(d.brief, DefaultBrief),
             OrDefault(d.detail, DefaultDetail), OrDefault(d.rules, DefaultRules))

TextPart(d) == [type |-> "text", text |-> UserText(d)]

ImagePart(v) == [type |-> "image_url", image_url |-> [url |-> v]]

\* const messages = [ {role: "system", ...}, {role: "user", content: [text part]} ]
\* One messages array kept at module level and handed to every invocation:
\* an invocation that finds an array already built gets that one.
NewMessagesShared(d) ==
  LET built == {j \in Procs : messages[j] # <<>>} IN
  IF built = {}
  THEN << [role |-> "system", content |-> SystemPrompt],
          [role |-> "user", content |-> <<TextPart(d)>>] >>
  ELSE messages[CHOOSE j \in built : TRUE]

NewMessages(d) ==
  << [role |-> "system", content |-> SystemPrompt],
     [role |-> "user", content |-> <<TextPart(d)>>] >>

\* if (imageDataUrl) messages[1].content.push({type: "image_url", ...})
\* The image test as `imageDataUrl !== undefined`.
HasImageDefined(d) == d.imageDataUrl.t # "undefined"

HasImage(d) == Truthy(d.imageDataUrl)

PushImage(m, d) ==
  IF HasImage(d)
  THEN [m EXCEPT ![2].content = Append(@, ImagePart(d.imageDataUrl))]
  ELSE m

\* model || "gpt-5"
ModelOf(d) == IF Truthy(d.model) THEN d.model ELSE JStr(DefaultModel)

\* The body with a temperature key left in.
BuildBodyWithTemperature(f, m, d) ==
  [ model |-> ModelOf(d),
    messages |-> m,
    temperature |-> "0.2",
    response_format |-> [type |-> "json_schema", json_schema |-> schema(f)] ]

\* A body whose default model differs in one of the files.
BuildBodyPerFile(f, m, d) ==
  [ model |-> IF f = "part_000" /\ ~Truthy(d.model) THEN JStr("gpt-4o-mini") ELSE ModelOf(d),
    messages |-> m,
    response_format |-> [type |-> "json_schema", json_schema |-> schema(f)] ]

\* const body = { model, messages, response_format }
BuildBody(f, m, d) ==
  [ model |-> ModelOf(d),
    messages |-> m,
    response_format |-> [type |-> "json_schema", json_schema |-> schema(f)] ]

OPENAI_API_KEY == "sk-from-environment"

\* The arguments of fetch(); the body is the JSON text of b, kept as the value
\* it denotes (every value in b is a string, boolean, array or object, which
\* JSON.stringify writes and the service's parser reads back unchanged).
FetchCall(b) ==
  [ url |-> "https://api.openai.com/v1/chat/completions",
    method |-> "POST",
    headers |-> [Authorization |-> "Bearer " \o OPENAI_API_KEY,
                 ContentType |-> "application/json"],
    body |-> b ]

\* data.choices?.[0]?.message?.content, for a data that is not nullish.
ContentOf(data) == OptProp(OptProp(OptFirst(GetProp(data, "choices")), "message"), "content")

\* The Response body as `content ?? "{}"`.
BodyOfNullish(content) == IF Nullish(content) THEN "{}" ELSE StringOf(content)

\* content || "{}", as the Response body.
BodyOf(content) == IF Truthy(content) THEN StringOf(content) ELSE "{}"

\* Messages of the errors the runtime throws.
MsgBodySyntax == "Unexpected end of JSON input"
MsgDestructure == "Cannot destructure property 'figmaUrl' of 'null' as it is null."
MsgFetch == "fetch failed"
MsgReplySyntax == "Unexpected token '<' is not valid JSON"
MsgChoices == "Cannot read properties of null (reading 'choices')"

\* catch (err) { return new Response(`Server error: ${err.message || String(err)}`, 500) }
\* What an invocation ends with when a step throws: the responses it returns
\* and whether the exception leaves the handler.
\* A throw outside any try block: nothing is returned, the exception leaves.
Uncaught(msg) == [returned |-> <<>>, escaped |-> TRUE]

Caught(msg) == [returned |-> <<TextResponse("Server error: " \o msg, 500)>>, escaped |-> FALSE]

\* What an invocation ends with when a step returns r.
Returned(r) == [returned |-> <<r>>, escaped |-> FALSE]

-----------------------------------------------------------------------------
(* The handler's steps between awaits *)

\* The invocation i ends with outcome o.
Finish(i, o) ==
  /\ pc' = [pc EXCEPT ![i] = "done"]
  /\ responses' = [responses EXCEPT ![i] = responses[i] \o o.returned]
  /\ escaped' = [escaped EXCEPT ![i] = o.escaped]

\* handler(req) up to its first await: the method check, then req.json().
Invoke(i, f, r) ==
  /\ pc[i] = "idle"
  /\ file' = [file EXCEPT ![i] = f]
  /\ req' = [req EXCEPT ![i] = r]
  /\ IF ~MethodAllowed(r.method)
     THEN /\ Finish(i, Returned(MethodNotAllowed))
          /\ UNCHANGED bodyRead
     ELSE /\ bodyRead' = [bodyRead EXCEPT ![i] = TRUE]
          /\ pc' = [pc EXCEPT ![i] = "awaitBody"]
          /\ UNCHANGED <<responses, escaped>>
  /\ UNCHANGED <<messages, fetches, upstream>>

\* A handler that takes a body it cannot parse for {} and goes on to fetch().
BodyArrivesLenient(i) ==
  /\ pc[i] = "awaitBody"
  /\ LET b == req[i].body
         v == IF b.kind = "invalid" THEN EmptyObject ELSE b.value
     IN
     IF Nullish(v)
     THEN /\ Finish(i, Caught(MsgDestructure))
          /\ UNCHANGED <<messages, fetches>>
     ELSE LET d == Destructure(v)
              m == PushImage(NewMessages(d), d)
          IN /\ messages' = [messages EXCEPT ![i] = m]
             /\ fetches' = [fetches EXCEPT ![i] = Append(@, FetchCall(BuildBody(file[i], m, d)))]
             /\ pc' = [pc EXCEPT ![i] = "awaitFetch"]
             /\ UNCHANGED <<responses, escaped>>
  /\ UNCHANGED <<file, req, bodyRead, upstream>>

\* req.json() settles: destructuring, the messages, the body, then fetch().
BodyArrives(i) ==
  /\ pc[i] = "awaitBody"
  /\ LET b == req[i].body IN
     IF b.kind = "invalid"
     THEN /\ Finish(i, Caught(MsgBodySyntax))
          /\ UNCHANGED <<messages, fetches>>
     ELSE IF Nullish(b.value)
     THEN /\ Finish(i, Caught(MsgDestructure))
          /\ UNCHANGED <<messages, fetches>>
     ELSE LET d == Destructure(b.value)
              m == PushImage(NewMessages(d), d)
          IN /\ messages' = [messages EXCEPT ![i] = m]
             /\ fetches' = [fetches EXCEPT ![i] = Append(@, FetchCall(BuildBody(file[i], m, d)))]
             /\ pc' = [pc EXCEPT ![i] = "awaitFetch"]
             /\ UNCHANGED <<responses, escaped>>
  /\ UNCHANGED <<file, req, bodyRead, upstream>>

\* A handler that calls fetch() again after a failed call.
FetchSettlesRetry(i, u) ==
  /\ pc[i] = "awaitFetch"
  /\ upstream' = [upstream EXCEPT ![i] = u]
  /\ IF (u.kind = "rejected" \/ ~u.ok) /\ Len(fetches[i]) < 2
     THEN /\ fetches' = [fetches EXCEPT ![i] = Append(@, fetches[i][1])]
          /\ UNCHANGED <<pc, responses, escaped>>
     ELSE /\ UNCHANGED fetches
          /\ IF u.kind = "rejected"
             THEN Finish(i, Caught(MsgFetch))
             ELSE /\ pc' = [pc EXCEPT ![i] = IF u.ok THEN "awaitJson" ELSE "awaitText"]
                  /\ UNCHANGED <<responses, escaped>>
  /\ UNCHANGED <<file, req, bodyRead, messages>>

\* fetch() settles with u: a rejection is caught; otherwise resp.text() or
\* resp.json() is awaited according to resp.ok.
FetchSettles(i, u) ==
  /\ pc[i] = "awaitFetch"
  /\ upstream' = [upstream EXCEPT ![i] = u]
  /\ IF u.kind = "rejected"
     THEN Finish(i, Caught(MsgFetch))
     ELSE /\ pc' = [pc EXCEPT ![i] = IF u.ok THEN "awaitJson" ELSE "awaitText"]
          /\ UNCHANGED <<responses, escaped>>
  /\ UNCHANGED <<file, req, bodyRead, messages, fetches>>

\* A non-ok reply answered without its text.
TextArrivesNoText(i) ==
  /\ pc[i] = "awaitText"
  /\ Finish(i, Returned(TextResponse("OpenAI error: upstream failure", 500)))
  /\ UNCHANGED <<file, req, bodyRead, messages, fetches, upstream>>

\* resp.text() settles on a non-ok reply.
TextArrives(i) ==
  /\ pc[i] = "awaitText"
  /\ Finish(i, Returned(TextResponse("OpenAI error: " \o upstream[i].text, 500)))
  /\ UNCHANGED <<file, req, bodyRead, messages, fetches, upstream>>

\* resp.json() settles on an ok reply.
JsonArrives(i) ==
  /\ pc[i] = "awaitJson"
  /\ LET p == JsonParse(upstream[i].text) IN
     IF ~p.ok THEN Finish(i, Caught(MsgReplySyntax))
     ELSE IF Nullish(p.value) THEN Finish(i, Caught(MsgChoices))
     ELSE Finish(i, Returned(JsonResponse(BodyOf(ContentOf(p.value)), 200)))
  /\ UNCHANGED <<file, req, bodyRead, messages, fetches, upstream>>

\* One invocation, every request and every reply.
Solo == {1}

Next ==
  \E i \in Solo :
     \/ \E f \in Files, r \in Requests : Invoke(i, f, r)
     \/ BodyArrives(i)
     \/ \E u \in Replies : FetchSettles(i, u)
     \/ TextArrives(i)
     \/ JsonArrives(i)

Spec == Init /\ [][Next]_vars

\* The files whose handlers run in the concurrent specification.
ConcFiles == {"generate", "part_000"}

\* NumProcs invocations interleaved at their awaits.
NextConc ==
  \E i \in Procs :
     \/ \E f \in ConcFiles, r \in ConcRequests : Invoke(i, f, r)
     \/ BodyArrives(i)
     \/ \E u \in ConcReplies : FetchSettles(i, u)
     \/ TextArrives(i)
     \/ JsonArrives(i)

SpecConc == Init /\ [][NextConc]_vars

\* The requests sent to the handlers of two files side by side.
PairRequests ==
  { [method |-> "GET", body |-> JsonBody(ImageObject)],
    [method |-> "PUT", body |-> InvalidBody],
    [method |-> "POST", body |-> InvalidBody],
    [method |-> "POST", body |-> JsonBody(JNull)],
    [method |-> "POST", body |-> JsonBody(JArr(<<>>))],
    [method |-> "POST", body |-> JsonBody(EmptyObject)],
    [method |-> "POST", body |-> JsonBody(ImageObject)],
    [method |-> "POST", body |-> JsonBody(JObj([model |-> JStr(""), imageDataUrl |-> JNull]))],
    [method |-> "POST", body |-> JsonBody(JObj([model |-> JNull, imageDataUrl |-> JStr(""),
                                                 rules |-> JStr("")]))],
    [method |-> "POST", body |-> JsonBody(JObj([figmaUrl |-> JStr("https://figma.com/file/abc"),
                                                 brief |-> JStr("Checkout flow"),
                                                 rules |-> JStr("must: login"),
                                                 detail |-> JStr("high"),
                                                 model |-> JStr("gpt-4o"),
                                                 imageDataUrl |-> JStr("data:image/png;base64,AAAA")]))] }

\* Two invocations, each of any file's handler, given the same request.
Pair == {1, 2}

NextPair ==
  \E i \in Pair :
     \/ \E f \in Files, r \in PairRequests :
           /\ \A j \in Pair : pc[j] # "idle" => req[j] = r
           /\ Invoke(i, f, r)
     \/ BodyArrives(i)
     \/ \E u \in Replies : FetchSettles(i, u)
     \/ TextArrives(i)
     \/ JsonArrives(i)

SpecPair == Init /\ [][NextPair]_vars

-----------------------------------------------------------------------------
(* Properties *)

Started(i) == pc[i] # "idle"
Done(i) == pc[i] = "done"
IsPost(i) == Started(i) /\ req[i].method = "POST"
Fetched(i) == Len(fetches[i]) >= 1
Replied(i) == upstream[i].kind = "response"

\* The one Response of a finished invocation, and the one outbound body.
TheResponse(i) == responses[i][1]
OutBody(i) == fetches[i][1].body
UserContent(i) == OutBody(i).messages[2].content

\* The request body is a JSON object; its keys.
ObjectBody(i) == IsPost(i) /\ req[i].body.kind = "json" /\ req[i].body.value.t = "obj"
BodyKeys(i) == DOMAIN req[i].body.value.o

\* C1: a request whose method is not POST ends at once with one response of
\* status 405, without fetch() being called and without req.json() being called.
C1_NonPostIs405 ==
  \A i \in Procs :
    (Started(i) /\ req[i].method # "POST") =>
       /\ Done(i)
       /\ Len(responses[i]) = 1
       /\ TheResponse(i).status = 405
       /\ fetches[i] = <<>>
       /\ ~bodyRead[i]
       /\ ~escaped[i]

C1_Witness ==
  \E i \in Procs : /\ Done(i) /\ req[i].method = "PUT"
                   /\ req[i].body = JsonBody(ImageObject)
                   /\ TheResponse(i).status = 405

\* C2 as stated: a POST whose reply is ok ends with status 200, content type
\* application/json and the reply's message content as body, "{}" standing in
\* when the content is absent (undefined or null).
C2_Original ==
  \A i \in Procs :
    (Done(i) /\ Replied(i) /\ upstream[i].ok) =>
       /\ Len(responses[i]) = 1
       /\ TheResponse(i).status = 200
       /\ TheResponse(i).headers.ContentType = "application/json"
       /\ LET p == JsonParse(upstream[i].text) IN
          p.ok /\ ~Nullish(p.value) /\
          LET c == ContentOf(p.value) IN
          TheResponse(i).body = (IF Nullish(c) THEN "{}" ELSE c.s)

\* C2 amended: a POST whose reply is ok and whose reply text parses to a JSON
\* value other than null ends with status 200, content type application/json
\* and the message content as body, "{}" standing in when the content is
\* absent, null or the empty string; an ok reply whose text is not JSON, or is
\* the JSON null, ends with status 500.
C2_OkReplyIs200 ==
  \A i \in Procs :
    (Done(i) /\ Replied(i) /\ upstream[i].ok) =>
       LET t == upstream[i].text IN
       /\ Len(responses[i]) = 1
       /\ ~escaped[i]
       /\ (t \in {TextEmptyObject, TextNoChoices, TextNoMessage, TextRefusal,
                  TextEmptyContent, TextBundle}) =>
             TheResponse(i) = [status |-> 200,
                               headers |-> [ContentType |-> "application/json"],
                               body |-> IF t = TextBundle THEN ContentBundle ELSE "{}"]
       /\ (t \in {TextHtml, TextNull}) => TheResponse(i).status = 500

C2_Witness ==
  \E i \in Procs : /\ Done(i) /\ Replied(i) /\ upstream[i].ok
                   /\ upstream[i].text = TextBundle
                   /\ TheResponse(i).body = ContentBundle

\* C3: a POST whose reply is not ok never gets a 200, and ends with one
\* response of status 500 whose body is "OpenAI error: " followed by the
\* reply's text.
C3_ErrorReplyIs500 ==
  \A i \in Procs :
    (Replied(i) /\ ~upstream[i].ok) =>
       /\ \A n \in 1..Len(responses[i]) : responses[i][n].status # 200
       /\ Done(i) =>
            /\ Len(responses[i]) = 1
            /\ TheResponse(i).status = 500
            /\ TheResponse(i).body = "OpenAI error: " \o upstream[i].text

C3_Witness ==
  \E i \in Procs : /\ Done(i) /\ Replied(i) /\ ~upstream[i].ok
                   /\ upstream[i].text = TextRateLimit
                   /\ TheResponse(i).status = 500

\* What key k may contribute to the user text: its default d when the key is
\* absent; when it is present, the default or the key's own text.
PiecesFor(i, k, d) ==
  IF k \notin BodyKeys(i) THEN {d}
  ELSE {d} \cup (IF req[i].body.value.o[k].t = "str" THEN {req[i].body.value.o[k].s} ELSE {})

C5_Original ==
  \A i \in Procs :
    (ObjectBody(i) /\ Fetched(i)) =>
       IF "imageDataUrl" \in BodyKeys(i)
       THEN /\ Len(UserContent(i)) = 2
            /\ UserContent(i)[1].type = "text"
            /\ UserContent(i)[2] = [type |-> "image_url",
                                    image_url |-> [url |-> req[i].body.value.o.imageDataUrl]]
       ELSE /\ Len(UserContent(i)) = 1
            /\ UserContent(i)[1].type = "text"

\* The body carries a truthy imageDataUrl (here: a non-empty string).
ImageGiven(i) ==
  /\ "imageDataUrl" \in BodyKeys(i)
  /\ req[i].body.value.o.imageDataUrl.t = "str"
  /\ req[i].body.value.o.imageDataUrl.s # ""

\* C5 amended: with a truthy (non-empty) imageDataUrl in the body, the user
\* message is the text part followed by one image_url part carrying that value;
\* with the key absent, null or the empty string, the text part alone.
C5_ImagePart ==
  \A i \in Procs :
    (ObjectBody(i) /\ Fetched(i)) =>
       IF ImageGiven(i)
       THEN /\ Len(UserContent(i)) = 2
            /\ UserContent(i)[1].type = "text"
            /\ UserContent(i)[2] = [type |-> "image_url",
                                    image_url |-> [url |-> req[i].body.value.o.imageDataUrl]]
       ELSE /\ Len(UserContent(i)) = 1
            /\ UserContent(i)[1].type = "text"

C5_Witness ==
  \E i \in Procs : /\ ObjectBody(i) /\ Fetched(i) /\ ImageGiven(i)
                   /\ Len(UserContent(i)) = 2

\* The structure documented for the output envelope: an object with named
\* fields, some of them optional ("?"), an array of a shape, or a leaf whose
\* inside is not documented.
Leaf == [kind |-> "leaf"]
DocArray(items) == [kind |-> "array", items |-> items]
DocObject(fields, optional) == [kind |-> "object", fields |-> fields, optional |-> optional]

DocumentedShape ==
  DocObject(
    [ userStories |->
        DocArray(DocObject(
          [ id |-> Leaf, as_a |-> Leaf, i_want |-> Leaf, so_that |-> Leaf,
            acceptance_criteria |-> DocArray(Leaf),
            trace |-> DocObject([ui_nodes |-> Leaf, entities |-> Leaf],
                                {"ui_nodes", "entities"}) ],
          {"trace"})),
      declarativeStories |->
        DocArray(DocObject(
          [ title |-> Leaf,
            scenarios |->
              DocArray(DocObject(
                [given |-> Leaf, when |-> Leaf, then |-> Leaf, examples |-> Leaf],
                {"examples"})) ],
          {})),
      imperativeTests |->
        DocArray(DocObject(
          [name |-> Leaf, gherkin |-> Leaf, tags |-> DocArray(Leaf), selectors |-> Leaf],
          {"selectors"})),
      uiDataModel |->
        DocObject(
          [ entities |->
              DocArray(DocObject(
                [ name |-> Leaf,
                  fields |->
                    DocArray(DocObject(
                      [ name |-> Leaf, type |-> Leaf, required |-> Leaf,
                        constraints |-> Leaf, enum |-> Leaf ],
                      {"required", "constraints", "enum"})),
                  relations |-> Leaf ],
                {"relations"})),
            jsonSchemas |-> Leaf,
            sqlDDL |-> Leaf ],
          {"jsonSchemas", "sqlDDL"}),
      validationReport |->
        DocObject(
          [ coverage |-> DocObject([uiComponentsCoveredPct |-> Leaf, fieldsWithTestsPct |-> Leaf],
                                   {"uiComponentsCoveredPct", "fieldsWithTestsPct"}),
            conflicts |-> Leaf, ambiguities |-> Leaf, missing |-> Leaf,
            notes |-> DocArray(Leaf) ],
          {"coverage", "conflicts", "ambiguities", "missing", "notes"}) ],
    {})

\* The names a schema node lists as required.
RequiredSet(node) ==
  IF "required" \in DOMAIN node THEN {node.required[n] : n \in 1..Len(node.required)} ELSE {}

\* The schema node declares exactly the documented fields, nested as
\* documented; with lists, it also requires exactly the fields not marked "?".
RECURSIVE Matches(_, _, _)
Matches(node, shape, lists) ==
  CASE shape.kind = "leaf" -> TRUE
    [] shape.kind = "array" ->
         /\ node.type = "array"
         /\ "items" \in DOMAIN node
         /\ Matches(node.items, shape.items, lists)
    [] shape.kind = "object" ->
         /\ node.type = "object"
         /\ "properties" \in DOMAIN node
         /\ DOMAIN node.properties = DOMAIN shape.fields
         /\ lists => RequiredSet(node) = DOMAIN shape.fields \ shape.optional
         /\ \A k \in DOMAIN shape.fields : Matches(node.properties[k], shape.fields[k], lists)

\* C6: the json_schema of every outbound request, whichever file's handler
\* sent it, has the documented structure: the five required top-level fields
\* and under them the documented field names, nesting and required lists.
C6_Original ==
  \A i \in Procs :
    Fetched(i) =>
      Matches(OutBody(i).response_format.json_schema.schema, DocumentedShape, TRUE)

\* A step of the invocation threw: the body is not JSON, the body is null,
\* fetch() rejected, or the ok reply is not JSON or is null.
Threw(i) ==
  /\ Done(i)
  /\ \/ IsPost(i) /\ req[i].body.kind = "invalid"
     \/ IsPost(i) /\ req[i].body.kind = "json" /\ req[i].body.value.t = "null"
     \/ upstream[i].kind = "rejected"
     \/ Replied(i) /\ upstream[i].ok /\ upstream[i].text \in {TextHtml, TextNull}

ServerErrors ==
  {"Server error: " \o m : m \in {MsgBodySyntax, MsgDestructure, MsgFetch, MsgReplySyntax, MsgChoices}}

\* C7: no exception leaves the handler; an invocation has no response until it
\* ends and exactly one when it has ended, of status 200, 405 or 500; when a
\* step threw, that response has status 500 and a "Server error: ..." text.
C7_NoExceptionEscapes ==
  \A i \in Procs :
    /\ ~escaped[i]
    /\ ~Done(i) => responses[i] = <<>>
    /\ Done(i) => /\ Len(responses[i]) = 1
                  /\ TheResponse(i).status \in {200, 405, 500}
    /\ Threw(i) => /\ TheResponse(i).status = 500
                   /\ TheResponse(i).body \in ServerErrors

C7_Witness ==
  \E i \in Procs : /\ Threw(i) /\ upstream[i].kind = "rejected"
                   /\ TheResponse(i).status = 500
                   /\ TheResponse(i).body = "Server error: fetch failed"

\* The outbound call failed: fetch() rejected or the reply is not ok.
CallFailed(i) == upstream[i].kind = "rejected" \/ (Replied(i) /\ ~upstream[i].ok)

\* C8: an invocation calls fetch() at most once; once the call has settled,
\* failed or not, there is still exactly one call, and a failed call ends in a
\* 500 built from that call's outcome.
C8_SingleOutboundCall ==
  \A i \in Procs :
    /\ Len(fetches[i]) <= 1
    /\ pc[i] \in {"awaitFetch", "awaitText", "awaitJson"} => Len(fetches[i]) = 1
    /\ upstream[i] # NoReply => Len(fetches[i]) = 1
    /\ (CallFailed(i) /\ Done(i)) =>
          /\ Len(responses[i]) = 1
          /\ TheResponse(i).status = 500
          /\ TheResponse(i).body = IF upstream[i].kind = "rejected"
                                   THEN "Server error: fetch failed"
                                   ELSE "OpenAI error: " \o upstream[i].text

C8_Witness ==
  \E i \in Procs : /\ Done(i) /\ CallFailed(i) /\ Replied(i)
                   /\ Len(fetches[i]) = 1 /\ TheResponse(i).status = 500

\* The shape of the one outbound body of invocation i.
OutBodyShape(i) ==
  /\ Len(fetches[i]) = 1
  /\ DOMAIN OutBody(i) = {"model", "messages", "response_format"}
  /\ LET supplied == GetProp(req[i].body.value, "model") IN
     OutBody(i).model = (IF supplied.t = "str" /\ supplied.s # "" THEN supplied
                         ELSE [t |-> "str", s |-> "gpt-5"])
  /\ Len(OutBody(i).messages) = 2
  /\ OutBody(i).messages[1].role = "system"
  /\ OutBody(i).messages[1].content = SystemPrompt
  /\ OutBody(i).messages[2].role = "user"
  /\ OutBody(i).response_format =
        [type |-> "json_schema",
         json_schema |-> CASE file[i] = "generate" -> schema_generate
                           [] file[i] = "part_000" -> schema_part_000
                           [] file[i] = "part_001" -> schema_part_001]

\* C9 as stated: every POST whose body parses as JSON has, once the body is
\* read, an outbound body with exactly the keys model, messages and
\* response_format: the supplied model or "gpt-5", the system then the user
\* message, and {type: "json_schema", json_schema: schema()}.
C9_Original ==
  \A i \in Procs :
    (IsPost(i) /\ req[i].body.kind = "json" /\ pc[i] # "awaitBody") => OutBodyShape(i)

\* C9 amended: the same, for every POST whose body parses to a JSON value
\* other than null.
C9_OutboundBody ==
  \A i \in Procs :
    (IsPost(i) /\ req[i].body.kind = "json" /\ req[i].body.value.t # "null"
       /\ pc[i] # "awaitBody") => OutBodyShape(i)

C9_Witness ==
  \E i \in Procs : /\ ObjectBody(i) /\ pc[i] = "awaitFetch"
                   /\ "model" \in BodyKeys(i)
                   /\ OutBody(i).model = [t |-> "str", s |-> "gpt-4o"]
                   /\ file[i] = "part_001"

\* C10: with invocations interleaved at their awaits, each one's messages and
\* outbound call come from its own request alone (every image part it sends
\* carries its own imageDataUrl, and two invocations of the same file with the
\* same request send the same call), and each one's response comes from its
\* own request and its own reply alone.
C10_Isolation ==
  \A i \in Procs :
    /\ Fetched(i) =>
         /\ Len(fetches[i]) = 1
         /\ OutBody(i).messages = messages[i]
         /\ UserContent(i)[1].type = "text"
         /\ Len(UserContent(i)) <= 2
         /\ \A n \in 1..Len(UserContent(i)) :
               UserContent(i)[n].type = "image_url" =>
                  /\ ObjectBody(i) /\ ImageGiven(i)
                  /\ UserContent(i)[n].image_url.url = req[i].body.value.o.imageDataUrl
    /\ \A j \in Procs :
         /\ (file[i] = file[j] /\ req[i] = req[j] /\ Fetched(i) /\ Fetched(j))
               => fetches[i] = fetches[j]
         /\ (req[i] = req[j] /\ upstream[i] = upstream[j] /\ Done(i) /\ Done(j))
               => responses[i] = responses[j]

C10_Witness ==
  \E i \in Procs, j \in Procs :
    /\ i # j
    /\ pc[i] = "awaitFetch" /\ pc[j] = "awaitFetch"
    /\ ObjectBody(i) /\ ImageGiven(i) /\ Len(UserContent(i)) = 2
    /\ ObjectBody(j) /\ req[j].body.value = EmptyObject /\ Len(UserContent(j)) = 1

\* The fetch() call c with the json_schema of its response_format taken out.
WithoutSchema(c) ==
  [c EXCEPT !.body.response_format =
     [k \in DOMAIN c.body.response_format \ {"json_schema"} |-> c.body.response_format[k]]]

\* The schema of file f, written out per file.
SchemaIn(f) == CASE f = "generate" -> schema_generate
                 [] f = "part_000" -> schema_part_000
                 [] f = "part_001" -> schema_part_001

\* C11: the handlers of the three files, given the same request, act alike:
\* they make the same fetch() call but for response_format.json_schema, which
\* is the file's own schema, and, given the same reply (or none), they return
\* the same response (status, headers, body).
C11_FilesDifferOnlyInSchema ==
  \A i \in Procs, j \in Procs :
    (Started(i) /\ Started(j) /\ req[i] = req[j]) =>
       /\ pc[i] = pc[j] => Len(fetches[i]) = Len(fetches[j])
       /\ (Fetched(i) /\ Fetched(j)) =>
            /\ Len(fetches[i]) = 1 /\ Len(fetches[j]) = 1
            /\ WithoutSchema(fetches[i][1]) = WithoutSchema(fetches[j][1])
            /\ OutBody(i).response_format.json_schema = SchemaIn(file[i])
       /\ (Done(i) /\ Done(j) /\ upstream[i] = upstream[j]) => responses[i] = responses[j]

C11_Witness ==
  \E i \in Procs, j \in Procs :
    /\ file[i] = "generate" /\ file[j] = "part_001"
    /\ req[i] = req[j] /\ ObjectBody(i) /\ ImageGiven(i)
    /\ Done(i) /\ Done(j) /\ upstream[i] = upstream[j]
    /\ Replied(i) /\ upstream[i].ok /\ upstream[i].text = TextBundle
    /\ OutBody(i).response_format.json_schema # OutBody(j).response_format.json_schema
    /\ WithoutSchema(fetches[i][1]) = WithoutSchema(fetches[j][1])
    /\ responses[i] = responses[j]

\* C12: within an invocation fetch(), which carries the bearer credential, is
\* called only once the method check has passed and the body has been read
\* and parsed as JSON: never while the body is awaited, never for a non-POST;
\* a POST whose body does not parse ends with a 500 and no fetch(); and a 200
\* is returned only after the one fetch() was answered with an ok reply.
C12_FetchAfterParse ==
  \A i \in Procs :
    /\ pc[i] \in {"idle", "awaitBody"} => fetches[i] = <<>>
    /\ Fetched(i) =>
         /\ req[i].method = "POST"
         /\ bodyRead[i]
         /\ req[i].body.kind = "json"
         /\ fetches[i][1].headers.Authorization = "Bearer " \o OPENAI_API_KEY
    /\ (IsPost(i) /\ req[i].body.kind = "invalid" /\ Done(i)) =>
         /\ Len(responses[i]) = 1
         /\ TheResponse(i).status = 500
         /\ fetches[i] = <<>>
         /\ upstream[i] = NoReply
    /\ \A n \in 1..Len(responses[i]) :
         responses[i][n].status = 200 =>
            /\ Len(fetches[i]) = 1
            /\ Replied(i)
            /\ upstream[i].ok

C12_Witness ==
  \E i \in Procs : /\ IsPost(i) /\ req[i].body.kind = "invalid" /\ Done(i)
                   /\ bodyRead[i]
                   /\ TheResponse(i).status = 500
                   /\ fetches[i] = <<>>

====
